---- MODULE Spec2Model ----
(***************************************************************************)
(* BoTeX: the message-to-command dispatch pipeline.                        *)
(*                                                                         *)
(* The model follows the revision that main.go wires together:             *)
(*   commands.CommandHandler     (HandleEvent, acquireSemaphore, ...)      *)
(*   auth.contextBuilder         (BuildContext, extractCommand)            *)
(*   auth.UnifiedAuthService     (CheckPermission)                         *)
(*   auth.SQLiteAuthStore        (users, ranks, registered_groups)         *)
(*   ratelimit.RateLimitService  (Limiter, Notifier)                       *)
(*                                                                         *)
(* Time is a discrete clock `now`; time.Time values are clock readings.    *)
(* Strings that the code inspects (message text, denial reasons) are       *)
(* sequences: message text is a sequence of characters, a reason is a      *)
(* sequence of words.                                                      *)
(***************************************************************************)
EXTENDS Integers, Sequences, FiniteSets, TLC

(***************************************************************************)
(* Bounds of the model and configuration values chosen for it.             *)
(***************************************************************************)
\* cfg.MaxConcurrent: capacity of the semaphore channel
MaxConcurrent == 1
\* cfg.RateLimit.Requests
maxRequests == 2
\* cfg.RateLimit.Period, in clock ticks
period == 2
\* cfg.RateLimit.NotificationCooldown, in clock ticks
notifyPeriod == 2
\* the clock stops advancing here
MaxTime == 3
\* length of the recorded history of direct Limiter/Notifier calls
MaxCalls == 4
\* number of runCleanup goroutines that can be started
MaxSweepers == 3
\* AutoCleaner.cleanables grows no longer than this
MaxCleanables == 4

\* one more goroutine than there are slots
Procs == 1..(MaxConcurrent + 1)

Users == {"alice", "bob"}
Groups == {"G1"}
\* the group id of a private chat
PrivateChat == ""
RankNames == {"owner", "basic"}
\* the ranks the rank API can add to the seeded ones
NewRankNames == {"mod", "vip"}
AllRankNames == RankNames \cup NewRankNames
\* Level of the seeded ranks
OwnerLevel == 0
BasicLevel == 100
\* the levels the rank API is called with
RankLevels == {OwnerLevel, 1, BasicLevel}

\* command names (sequences of characters)
CmdHelp == <<"h">>
CmdLatex == <<"l">>
CmdOther == <<"z">>
CommandNames == {CmdHelp, CmdLatex, CmdOther}
\* the entry "*" the README documents as allowing every command
CmdWildcard == <<"*">>

\* command sets a rank may be configured with
CommandSets == {{}, {CmdHelp}, {CmdHelp, CmdOther}}
\* the same, and the set of the seeded owner rank: the wildcard alone
AuthCommandSets == CommandSets \cup {{CmdWildcard}}

None == "none"

VARIABLES
  now,           \* the clock (time.Now)
  users,         \* table users: user_id -> row
  groups,        \* table registered_groups: group_id -> row
  ranks,         \* table ranks: name -> row
  requests,      \* Limiter.requests: user -> sequence of timestamps
  notifiedTime,  \* Notifier.notifiedTime: user -> timestamp or NotNotified
  running,       \* RateLimitService.running
  semaphore,     \* number of elements in CommandHandler.semaphore
  pc,            \* per goroutine: position in HandleEvent
  mctx,          \* per goroutine: auth.MessageContext of the dispatch
  rateErr,       \* per goroutine: result of rateService.Check
  held,          \* per goroutine: a release() closure is pending
  outcome,       \* per goroutine: how executeCommandWithContext ended
  event,         \* the last step: goroutine, value returned by the dispatch,
                 \* error it handled, feedback it sent
  calls,         \* history of direct Limiter.Check calls
  ncalls,        \* history of direct Notifier calls
  lastPerm,      \* the direct CheckPermission call of the last step, if it was one
  cgCall,        \* per goroutine: position and locals of a CreateGroup call
  limMu,         \* Limiter.mu: the goroutine that holds it, or 0
  limCall,       \* per goroutine: position and locals of a Limiter.Check call
  rkCall,        \* per goroutine: position and locals of a CreateRank or
                 \* UpdateRank call of the service
  cleanables,    \* AutoCleaner.cleanables
  isRunning,     \* AutoCleaner.isRunning
  stopCleaner,   \* AutoCleaner.stopCleaner: "open" or "closed"
  tickerOn,      \* AutoCleaner.ticker has not been stopped
  tickerC,       \* number of ticks waiting in the channel ticker.C (0 or 1)
  sweep,         \* per runCleanup goroutine: position in the loop
  cleanerPanic   \* close of the closed stopCleaner channel has panicked

storeVars == <<users, groups, ranks>>
rateVars == <<requests, notifiedTime, running>>
dispVars == <<pc, mctx, rateErr, held, outcome>>
histVars == <<calls, ncalls>>
cleanerVars ==
  <<cleanables, isRunning, stopCleaner, tickerOn, tickerC, sweep, cleanerPanic>>
limVars == <<limMu, limCall>>
extVars == <<cgCall, rkCall, limVars, cleanerVars>>
vars ==
  <<now, storeVars, rateVars, semaphore, dispVars, event, histVars, lastPerm,
    extVars>>

(***************************************************************************)
(* Helpers                                                                 *)
(***************************************************************************)
Max(a, b) == IF a >= b THEN a ELSE b

\* the elements of a sequence
Range(s) == {s[i] : i \in 1..Len(s)}

RECURSIVE SeqMin(_)
SeqMin(s) ==
  IF Len(s) = 1 THEN s[1]
  ELSE LET m == SeqMin(Tail(s)) IN IF s[1] <= m THEN s[1] ELSE m

(***************************************************************************)
(* Message text: strings.HasPrefix, strings.Fields                         *)
(***************************************************************************)
HasPrefix(text, c) == Len(text) >= 1 /\ text[1] = c

RECURSIVE FieldsAcc(_, _, _)
FieldsAcc(s, cur, acc) ==
  IF s = <<>>
  THEN IF cur = <<>> THEN acc ELSE Append(acc, cur)
  ELSE IF Head(s) = " "
       THEN FieldsAcc(Tail(s), <<>>, IF cur = <<>> THEN acc ELSE Append(acc, cur))
       ELSE FieldsAcc(Tail(s), Append(cur, Head(s)), acc)

Fields(s) == FieldsAcc(s, <<>>, <<>>)

\* a parse that takes the first token of any text as the command
extractCommandNoPrefix(text) ==
  LET parts == Fields(IF HasPrefix(text, "!") THEN Tail(text) ELSE text)
  IN IF Len(parts) = 0 THEN <<>> ELSE parts[1]

\* contextBuilder.extractCommand: "" (here <<>>) when the text is no command
extractCommand(text) ==
  IF ~HasPrefix(text, "!") THEN <<>>
  ELSE LET parts == Fields(Tail(text))
       IN IF Len(parts) = 0 THEN <<>> ELSE parts[1]

(***************************************************************************)
(* SQLiteAuthStore: reads                                                  *)
(***************************************************************************)
NoUser == [present |-> FALSE, rank |-> None, active |-> FALSE]
NoGroup == [present |-> FALSE, by |-> None, active |-> FALSE]
NoRank == [present |-> FALSE, commands |-> {}, active |-> FALSE,
           level |-> OwnerLevel]

\* SELECT ... WHERE user_id = ? AND active = TRUE
GetUser(userID) ==
  IF users[userID].present /\ users[userID].active
  THEN [err |-> "ok", rank |-> users[userID].rank]
  ELSE [err |-> "ErrUserNotFound", rank |-> None]

\* SELECT ... WHERE group_id = ? AND active = TRUE
GetGroup(groupID) ==
  IF groups[groupID].present /\ groups[groupID].active
  THEN "ok"
  ELSE "ErrGroupNotRegistered"

\* SELECT ... WHERE name = ? AND active = TRUE
GetRank(rankName) ==
  IF rankName \in DOMAIN ranks /\ ranks[rankName].present
       /\ ranks[rankName].active
  THEN [err |-> "ok", commands |-> ranks[rankName].commands]
  ELSE [err |-> "ErrRankNotFound", commands |-> {}]

\* Rank.HasCommand: exact match against the rank's command list
HasCommand(commands, command) == \E cmd \in commands : cmd = command

(***************************************************************************)
(* UnifiedAuthService.CheckPermission                                      *)
(*                                                                         *)
(* `fault` names the store or transport call that fails with an            *)
(* infrastructure error (database error, cancelled context) during this    *)
(* check, or None; `isAdmin` is the transport's answer to IsGroupAdmin.    *)
(***************************************************************************)
Faults == {None, "group", "user", "rank", "admin"}

ReasonGroupNotRegistered == <<"Group", "not", "registered">>
ReasonUserNotRegistered == <<"User", "not", "registered">>
ReasonUserNotRegisteredPrivate ==
  <<"User", "not", "registered", "for", "private", "chat", "access">>
ReasonUnableToDetermine == <<"Unable", "to", "determine", "user", "permissions">>
\* fmt.Sprintf("'%s'", command) for the commands of the model
Quoted(command) ==
  IF command = CmdHelp THEN "'h'"
  ELSE IF command = CmdLatex THEN "'l'"
  ELSE IF command = CmdOther THEN "'z'"
  ELSE "''"
ReasonCommandNotAllowed(command, rank) ==
  <<"Command", Quoted(command), "not", "allowed", "for", "rank", rank>>
ReasonAccessGranted == <<"Access", "granted">>

\* errors CheckPermission returns instead of a result
ErrInvalidUserID == "invalid user ID"
ErrEmptyCommand == "command cannot be empty"
ErrGetGroup == "get_group: database error"
ErrGetUser == "get_user: database error"
\* err.Error() as words
ErrorText(err) ==
  IF err = ErrInvalidUserID THEN <<"auth", "check_permission", "failed:", "invalid", "user", "ID">>
  ELSE IF err = ErrEmptyCommand THEN <<"auth", "check_permission", "failed:", "command", "cannot", "be", "empty">>
  ELSE IF err = ErrGetGroup THEN <<"auth", "get_group", "failed", "for", "group:", "database", "error">>
  ELSE <<"auth", "get_user", "failed", "for", "user:", "database", "error">>
ReasonCheckFailed(err) == <<"permission", "check", "failed:">> \o ErrorText(err)

PermResult(err, allowed, reason, rank, admin) ==
  [err |-> err, Allowed |-> allowed, Reason |-> reason,
   UserRank |-> rank, IsWhatsAppAdmin |-> admin]

\* a rank step that takes "unable to verify" as "is admin"
CheckRankStepAdminUnverified(userID, groupID, command, fault, isAdmin, userRank) ==
  LET rank == GetRank(userRank)
  IN IF fault = "rank" \/ rank.err # "ok"
     THEN PermResult("ok", FALSE, ReasonUnableToDetermine, userRank, FALSE)
     ELSE IF ~HasCommand(rank.commands, command)
     THEN PermResult("ok", FALSE, ReasonCommandNotAllowed(command, userRank),
                     userRank, FALSE)
     ELSE PermResult("ok", TRUE, ReasonAccessGranted, userRank,
                     groupID # PrivateChat /\ (fault = "admin" \/ isAdmin))

\* a rank step that returns the error of the rank lookup
CheckRankStepReturnsError(userID, groupID, command, fault, isAdmin, userRank) ==
  LET rank == GetRank(userRank)
  IN IF fault = "rank" \/ rank.err # "ok"
     THEN PermResult("ErrRankNotFound", FALSE, <<>>, userRank, FALSE)
     ELSE IF ~HasCommand(rank.commands, command)
     THEN PermResult("ok", FALSE, ReasonCommandNotAllowed(command, userRank),
                     userRank, FALSE)
     ELSE PermResult("ok", TRUE, ReasonAccessGranted, userRank,
                     IF groupID # PrivateChat /\ fault # "admin" THEN isAdmin ELSE FALSE)

\* the tail of CheckPermission, once the user's rank row has been read
CheckRankStep(userID, groupID, command, fault, isAdmin, userRank) ==
  LET rank == GetRank(userRank)
  IN IF fault = "rank" \/ rank.err # "ok"
     THEN PermResult("ok", FALSE, ReasonUnableToDetermine, userRank, FALSE)
     ELSE IF ~HasCommand(rank.commands, command)
     THEN PermResult("ok", FALSE, ReasonCommandNotAllowed(command, userRank),
                     userRank, FALSE)
     ELSE PermResult("ok", TRUE, ReasonAccessGranted, userRank,
                     IF groupID # PrivateChat /\ fault # "admin" THEN isAdmin ELSE FALSE)

\* the user lookup of CheckPermission and what follows it
CheckUserStep(userID, groupID, command, fault, isAdmin) ==
  LET user == GetUser(userID)
  IN IF fault = "user"
     THEN PermResult(ErrGetUser, FALSE, <<>>, "", FALSE)
     ELSE IF user.err # "ok"
     THEN PermResult("ok", FALSE,
                     IF groupID = PrivateChat THEN ReasonUserNotRegisteredPrivate
                                              ELSE ReasonUserNotRegistered,
                     "", FALSE)
     ELSE CheckRankStep(userID, groupID, command, fault, isAdmin, user.rank)

\* the order of the earlier Service.CheckPermission: the user lookup first
CheckPermissionUserFirst(userID, groupID, command, fault, isAdmin) ==
  IF fault # "user" /\ GetUser(userID).err # "ok"
  THEN PermResult("ok", FALSE, ReasonUserNotRegistered, "", FALSE)
  ELSE IF groupID # PrivateChat /\ GetGroup(groupID) # "ok"
  THEN PermResult("ok", FALSE, ReasonGroupNotRegistered, "", FALSE)
  ELSE CheckUserStep(userID, groupID, command, fault, isAdmin)

CheckPermission(userID, groupID, command, fault, isAdmin) ==
  IF userID = ""
  THEN PermResult(ErrInvalidUserID, FALSE, <<>>, "", FALSE)
  ELSE IF command = <<>>
  THEN PermResult(ErrEmptyCommand, FALSE, <<>>, "", FALSE)
  ELSE IF groupID # PrivateChat /\ fault = "group"
  THEN PermResult(ErrGetGroup, FALSE, <<>>, "", FALSE)
  ELSE IF groupID # PrivateChat /\ GetGroup(groupID) # "ok"
  THEN PermResult("ok", FALSE, ReasonGroupNotRegistered, "", FALSE)
  ELSE CheckUserStep(userID, groupID, command, fault, isAdmin)

(***************************************************************************)
(* ratelimit.Limiter                                                       *)
(***************************************************************************)
\* a window that never slides: no timestamp expires
ValidRequestsNoExpiry(reqs, t) == reqs

\* the timestamps of reqs still inside the window at time t
ValidRequests(reqs, t) == SelectSeq(reqs, LAMBDA x : t - x <= period)

\* Limiter.Check with the comparison off by one: <= maxRequests
LimiterCheckOffByOne(reqs, t) ==
  LET validRequests == ValidRequests(reqs, t)
      allowed == Len(validRequests) <= maxRequests
  IN [Allowed |-> allowed,
      ResetAfter |-> period,
      requests |-> IF allowed THEN Append(validRequests, t) ELSE reqs]

\* Limiter.Check that stores the new timestamp whether or not it allows
LimiterCheckRecordsDenied(reqs, t) ==
  LET validRequests == ValidRequests(reqs, t)
      resetAfter ==
        IF Len(validRequests) > 0
        THEN Max(period - (t - SeqMin(validRequests)), 0)
        ELSE period
      allowed == Len(validRequests) < maxRequests
  IN [Allowed |-> allowed,
      ResetAfter |-> resetAfter,
      requests |-> Append(validRequests, t)]

\* Limiter.Check that measures resetAfter from the newest timestamp
LimiterCheckResetFromNewest(reqs, t) ==
  LET validRequests == ValidRequests(reqs, t)
      resetAfter ==
        IF Len(validRequests) > 0
        THEN Max(period - (t - validRequests[Len(validRequests)]), 0)
        ELSE period
      allowed == Len(validRequests) < maxRequests
  IN [Allowed |-> allowed,
      ResetAfter |-> resetAfter,
      requests |-> IF allowed THEN Append(validRequests, t) ELSE reqs]

\* Limiter.Check on one user's list: the Result and the list left behind
LimiterCheck(reqs, t) ==
  LET validRequests == ValidRequests(reqs, t)
      resetAfter ==
        IF Len(validRequests) > 0
        THEN Max(period - (t - SeqMin(validRequests)), 0)
        ELSE period
      allowed == Len(validRequests) < maxRequests
  IN [Allowed |-> allowed,
      ResetAfter |-> resetAfter,
      requests |-> IF allowed THEN Append(validRequests, t) ELSE reqs]

(***************************************************************************)
(* ratelimit.Notifier                                                      *)
(***************************************************************************)
\* the user has no entry in Notifier.notifiedTime
NotNotified == -1

\* a throttle that never throttles
ShouldNotifyAlways(notifyTime, t) == TRUE

\* the decision ShouldNotify takes from the entry it read
ShouldNotifyDecision(notifyTime, t) ==
  notifyTime = NotNotified \/ t - notifyTime > notifyPeriod

(***************************************************************************)
(* AutoCleaner                                                             *)
(***************************************************************************)
\* the goroutines `go c.runCleanup()` can start
Sweepers == 1..MaxSweepers
Cleanables == {"limiter", "notifier"}

\* a Cleanup that deletes the entry of every user with an expired timestamp
LimiterCleanupDropsEntry(reqs, t) ==
  [u \in DOMAIN reqs |->
     IF ValidRequests(reqs[u], t) = reqs[u] THEN reqs[u] ELSE <<>>]

\* Limiter.Cleanup: drop the expired timestamps of every user
LimiterCleanup(reqs, t) == [u \in DOMAIN reqs |-> ValidRequests(reqs[u], t)]

\* Notifier.Cleanup: drop the expired notification records
NotifierCleanup(times, t) ==
  [u \in DOMAIN times |->
     IF times[u] # NotNotified /\ t - times[u] > notifyPeriod
     THEN NotNotified
     ELSE times[u]]

\* the goroutines that have been started and have not returned
AliveSweepers == {i \in Sweepers : sweep[i] \in {"select", "clean"}}
Unborn == {i \in Sweepers : sweep[i] = "unborn"}
NextSweeper == CHOOSE i \in Unborn : \A j \in Unborn : i <= j

\* AutoCleaner.Register, under c.mu
Register(cleanable) ==
  /\ Len(cleanables) < MaxCleanables
  /\ cleanables' = Append(cleanables, cleanable)
  /\ IF ~isRunning
     THEN /\ Unborn # {}
          /\ sweep' = [sweep EXCEPT ![NextSweeper] = "select"]
          /\ isRunning' = TRUE
     ELSE UNCHANGED <<sweep, isRunning>>
  /\ UNCHANGED <<stopCleaner, tickerOn, tickerC, cleanerPanic>>

\* AutoCleaner.Stop that leaves the channel stopCleaner open
StopWithoutClose ==
  /\ IF isRunning
     THEN /\ tickerOn' = FALSE
          /\ isRunning' = FALSE
          /\ UNCHANGED <<stopCleaner, cleanerPanic>>
     ELSE UNCHANGED <<tickerOn, stopCleaner, isRunning, cleanerPanic>>
  /\ UNCHANGED <<cleanables, tickerC, sweep>>

\* AutoCleaner.Stop, under c.mu; close of a closed channel panics before
\* isRunning is reset, and the panic ends the process with its goroutines
AutoCleanerStop ==
  /\ IF isRunning
     THEN /\ tickerOn' = FALSE
          /\ IF stopCleaner = "closed"
             THEN /\ cleanerPanic' = TRUE
                  /\ sweep' = [i \in Sweepers |->
                                IF i \in AliveSweepers THEN "exited"
                                                       ELSE sweep[i]]
                  /\ UNCHANGED <<stopCleaner, isRunning>>
             ELSE /\ stopCleaner' = "closed"
                  /\ isRunning' = FALSE
                  /\ UNCHANGED <<cleanerPanic, sweep>>
     ELSE UNCHANGED <<tickerOn, stopCleaner, isRunning, cleanerPanic, sweep>>
  /\ UNCHANGED <<cleanables, tickerC>>

\* RateLimitService.Start
RateLimitServiceStart ==
  IF running
  THEN UNCHANGED <<running, cleanerVars>>
  ELSE /\ Len(cleanables) + 2 <= MaxCleanables
       /\ cleanables' = cleanables \o <<"limiter", "notifier">>
       /\ IF ~isRunning
          THEN /\ Unborn # {}
               /\ sweep' = [sweep EXCEPT ![NextSweeper] = "select"]
               /\ isRunning' = TRUE
          ELSE UNCHANGED <<sweep, isRunning>>
       /\ running' = TRUE
       /\ UNCHANGED <<stopCleaner, tickerOn, tickerC, cleanerPanic>>

\* RateLimitService.Stop
RateLimitServiceStop ==
  IF ~running
  THEN UNCHANGED <<running, cleanerVars>>
  ELSE /\ AutoCleanerStop
       /\ running' = cleanerPanic'

(***************************************************************************)
(* Initial state: fresh schema with the default ranks, handler constructed *)
(* (NewCommandHandler starts the rate-limit service).                      *)
(***************************************************************************)
\* seeded ranks in which the basic rank is given the help command
DefaultRanksPermissive ==
  [r \in RankNames |->
     [present |-> TRUE,
      commands |-> IF r = "owner" THEN {CmdWildcard} ELSE {CmdHelp},
      active |-> TRUE,
      level |-> IF r = "owner" THEN OwnerLevel ELSE BasicLevel]]

\* auth.DefaultRanks
DefaultRanks ==
  [r \in RankNames |->
     [present |-> TRUE, commands |-> {}, active |-> TRUE,
      level |-> IF r = "owner" THEN OwnerLevel ELSE BasicLevel]]

NoContext ==
  [sender |-> None, group |-> PrivateChat, command |-> <<>>,
   checked |-> FALSE, Allowed |-> FALSE, Reason |-> <<>>, UserRank |-> ""]
NoEvent == [proc |-> 0, returned |-> None, err |-> None, sent |-> <<>>]
\* at is the clock reading l.Check took for the denial: the error value does
\* not carry it, the properties need it
NoRateErr == [kind |-> None, ResetAfter |-> 0, Notify |-> FALSE, at |-> 0]
NoCall == [pc |-> "idle", groupID |-> None, by |-> None, err |-> None]
NoLimiterCall ==
  [pc |-> "idle", user |-> None, t |-> 0, before |-> <<>>,
   result |-> [Allowed |-> FALSE, ResetAfter |-> 0, requests |-> <<>>]]
NoRankCall == [pc |-> "idle", op |-> None, name |-> None, level |-> OwnerLevel,
               err |-> None]
NoPerm == [userID |-> None, groupID |-> PrivateChat, command |-> <<>>,
           fault |-> None, groupRegistered |-> FALSE, userRegistered |-> FALSE,
           result |-> PermResult("ok", FALSE, <<>>, "", FALSE)]

Init ==
  /\ now = 0
  /\ users = [u \in Users |-> NoUser]
  /\ groups = [g \in Groups |-> NoGroup]
  /\ ranks = [r \in AllRankNames |->
                IF r \in RankNames THEN DefaultRanks[r] ELSE NoRank]
  /\ requests = [u \in Users |-> <<>>]
  /\ notifiedTime = [u \in Users |-> NotNotified]
  /\ running = TRUE
  /\ semaphore = 0
  /\ pc = [p \in Procs |-> "idle"]
  /\ mctx = [p \in Procs |-> NoContext]
  /\ rateErr = [p \in Procs |-> NoRateErr]
  /\ held = [p \in Procs |-> FALSE]
  /\ outcome = [p \in Procs |-> None]
  /\ event = NoEvent
  /\ calls = <<>>
  /\ ncalls = <<>>
  /\ lastPerm = NoPerm
  /\ cgCall = [p \in Procs |-> NoCall]
  /\ rkCall = [p \in Procs |-> NoRankCall]
  /\ limMu = 0
  /\ limCall = [p \in Procs |-> NoLimiterCall]
  /\ cleanables = <<"limiter", "notifier">>
  /\ isRunning = TRUE
  /\ stopCleaner = "open"
  /\ tickerOn = TRUE
  /\ tickerC = 0
  /\ sweep = [i \in Sweepers |-> IF i = 1 THEN "select" ELSE "unborn"]
  /\ cleanerPanic = FALSE

(***************************************************************************)
(* The clock                                                               *)
(***************************************************************************)
Tick(limit) ==
  /\ now < limit
  /\ now' = now + 1
  /\ UNCHANGED <<extVars, storeVars, rateVars, semaphore, dispVars, histVars>>
  /\ event' = NoEvent
  /\ lastPerm' = NoPerm

(***************************************************************************)
(* SQLiteAuthStore: writes (the calls that succeed)                        *)
(***************************************************************************)
\* INSERT INTO users; user_id is the primary key
CreateUser(userID, rankName) ==
  /\ GetUser(userID).err # "ok"
  /\ GetRank(rankName).err = "ok"
  /\ ~users[userID].present
  /\ users' = [users EXCEPT ![userID] =
                 [present |-> TRUE, rank |-> rankName, active |-> TRUE]]
  /\ UNCHANGED <<extVars,
                 now, groups, ranks, rateVars, semaphore, dispVars, histVars>>
  /\ event' = NoEvent
  /\ lastPerm' = NoPerm

\* a DeleteUser that removes the row
DeleteUserHard(userID) ==
  /\ GetUser(userID).err = "ok"
  /\ users' = [users EXCEPT ![userID] = NoUser]
  /\ UNCHANGED <<extVars,
                 now, groups, ranks, rateVars, semaphore, dispVars, histVars>>
  /\ event' = NoEvent
  /\ lastPerm' = NoPerm

\* UPDATE users SET active = FALSE
DeleteUser(userID) ==
  /\ GetUser(userID).err = "ok"
  /\ users' = [users EXCEPT ![userID].active = FALSE]
  /\ UNCHANGED <<extVars,
                 now, groups, ranks, rateVars, semaphore, dispVars, histVars>>
  /\ event' = NoEvent
  /\ lastPerm' = NoPerm

\* INSERT INTO registered_groups; group_id is the primary key
CreateGroup(groupID, registeredBy) ==
  /\ GetGroup(groupID) # "ok"
  /\ GetUser(registeredBy).err = "ok"
  /\ ~groups[groupID].present
  /\ groups' = [groups EXCEPT ![groupID] =
                  [present |-> TRUE, by |-> registeredBy, active |-> TRUE]]
  /\ UNCHANGED <<extVars,
                 now, users, ranks, rateVars, semaphore, dispVars, histVars>>
  /\ event' = NoEvent
  /\ lastPerm' = NoPerm

\* UPDATE registered_groups SET active = FALSE
DeleteGroup(groupID) ==
  /\ GetGroup(groupID) = "ok"
  /\ groups' = [groups EXCEPT ![groupID].active = FALSE]
  /\ UNCHANGED <<extVars,
                 now, users, ranks, rateVars, semaphore, dispVars, histVars>>
  /\ event' = NoEvent
  /\ lastPerm' = NoPerm

\* UPDATE ranks SET commands = ?, active = ? WHERE name = ? AND active = TRUE
UpdateRank(rankName, commands, active) ==
  /\ GetRank(rankName).err = "ok"
  /\ ranks[rankName].commands # commands \/ ~active
  /\ ranks' = [ranks EXCEPT ![rankName].commands = commands,
                            ![rankName].active = active]
  /\ UNCHANGED <<extVars,
                 now, users, groups, rateVars, semaphore, dispVars, histVars>>
  /\ event' = NoEvent
  /\ lastPerm' = NoPerm

(***************************************************************************)
(* SQLiteAuthStore.CreateGroup, statement by statement: the existence      *)
(* check and the check of the registering user are SELECTs outside the     *)
(* transaction, the transaction holds the INSERT alone.                    *)
(***************************************************************************)
CallDone(p, groupID, registeredBy, err) ==
  cgCall' = [cgCall EXCEPT ![p] =
               [pc |-> "done", groupID |-> groupID, by |-> registeredBy,
                err |-> err]]

\* the INSERT: group_id is the primary key, a conflict is a database error
InsertGroup(groupID) ==
  IF groups[groupID].present THEN "ErrDatabaseError" ELSE "ok"

\* s.GetGroup and s.GetUser(group.RegisteredBy)
CreateGroupCheck(p, groupID, registeredBy) ==
  /\ cgCall[p].pc = "idle"
  /\ IF GetGroup(groupID) = "ok"
     THEN CallDone(p, groupID, registeredBy, "ErrGroupAlreadyRegistered")
     ELSE IF GetUser(registeredBy).err # "ok"
     THEN CallDone(p, groupID, registeredBy, "ErrUserNotFound")
     ELSE cgCall' = [cgCall EXCEPT ![p] =
                       [pc |-> "insert", groupID |-> groupID,
                        by |-> registeredBy, err |-> None]]
  /\ event' = NoEvent
  /\ lastPerm' = NoPerm
  /\ UNCHANGED <<limVars, rkCall, cleanerVars, now, storeVars, rateVars, semaphore, dispVars,
                 histVars>>

\* BeginTx, INSERT INTO registered_groups, Commit
CreateGroupInsert(p) ==
  /\ cgCall[p].pc = "insert"
  /\ LET groupID == cgCall[p].groupID
         err == InsertGroup(groupID)
     IN /\ CallDone(p, groupID, cgCall[p].by, err)
        /\ IF err = "ok"
           THEN groups' = [groups EXCEPT ![groupID] =
                             [present |-> TRUE, by |-> cgCall[p].by,
                              active |-> TRUE]]
           ELSE UNCHANGED groups
  /\ event' = NoEvent
  /\ lastPerm' = NoPerm
  /\ UNCHANGED <<limVars, rkCall, cleanerVars, now, users, ranks, rateVars, semaphore, dispVars,
                 histVars>>

(***************************************************************************)
(* UnifiedAuthService.CreateRank and UpdateRank: validateRankHierarchy      *)
(* reads the active ranks, then the store call writes; nothing holds a     *)
(* lock across the two and the schema puts no constraint on level.         *)
(***************************************************************************)
\* SQLiteAuthStore.ListRanks: the names of the active ranks
ListRanks == {r \in DOMAIN ranks : ranks[r].present /\ ranks[r].active}

\* validateHierarchyRules
validateHierarchyRules(name, level, existingRanks) ==
  /\ name = "owner" => level = OwnerLevel
  /\ name = "basic" =>
       \A r \in existingRanks \ {"basic"} : ranks[r].level <= level
  /\ name # "owner" => level # OwnerLevel

\* validateRankHierarchy: TRUE when it returns nil
validateRankHierarchy(name, level) ==
  /\ level >= 0
  /\ \A r \in ListRanks \ {name} : ranks[r].level # level
  /\ validateHierarchyRules(name, level, ListRanks)

RankCallDone(p, err) ==
  rkCall' = [rkCall EXCEPT ![p].pc = "done", ![p].err = err]

\* the service call up to the return of validateRankHierarchy
RankValidate(p, op, name, level) ==
  /\ rkCall[p].pc = "idle"
  /\ rkCall' = [rkCall EXCEPT ![p] =
       IF validateRankHierarchy(name, level)
       THEN [pc |-> "write", op |-> op, name |-> name, level |-> level,
             err |-> None]
       ELSE [pc |-> "done", op |-> op, name |-> name, level |-> level,
             err |-> "hierarchy validation failed"]]
  /\ event' = NoEvent
  /\ lastPerm' = NoPerm
  /\ UNCHANGED <<limVars, cgCall, cleanerVars, now, storeVars, rateVars, semaphore,
                 dispVars, histVars>>

\* s.store.CreateRank or s.store.UpdateRank, with the rank the caller passed
RankWrite(p) ==
  /\ rkCall[p].pc = "write"
  /\ LET name == rkCall[p].name
         level == rkCall[p].level
     IN IF rkCall[p].op = "create"
        THEN IF GetRank(name).err = "ok"
             THEN RankCallDone(p, "rank already exists") /\ UNCHANGED ranks
             ELSE IF ranks[name].present
             THEN RankCallDone(p, "ErrDatabaseError") /\ UNCHANGED ranks
             ELSE /\ RankCallDone(p, "ok")
                  /\ ranks' = [ranks EXCEPT ![name] =
                       [present |-> TRUE, commands |-> {}, active |-> TRUE,
                        level |-> level]]
        ELSE IF GetRank(name).err # "ok"
             THEN RankCallDone(p, "ErrRankNotFound") /\ UNCHANGED ranks
             ELSE /\ RankCallDone(p, "ok")
                  /\ ranks' = [ranks EXCEPT ![name].level = level]
  /\ event' = NoEvent
  /\ lastPerm' = NoPerm
  /\ UNCHANGED <<limVars, cgCall, cleanerVars, now, users, groups, rateVars, semaphore,
                 dispVars, histVars>>

\* the caller has its result and may call again
RankReturn(p) ==
  /\ rkCall[p].pc = "done"
  /\ rkCall' = [rkCall EXCEPT ![p] = NoRankCall]
  /\ event' = NoEvent
  /\ lastPerm' = NoPerm
  /\ UNCHANGED <<limVars, cgCall, cleanerVars, now, storeVars, rateVars, semaphore,
                 dispVars, histVars>>

(***************************************************************************)
(* CommandHandler: feedback                                                *)
(***************************************************************************)
Reaction(emoji) == [kind |-> "reaction", body |-> emoji, arg |-> <<>>]
Text(body, arg) == [kind |-> "text", body |-> body, arg |-> arg]

ReactionWarning == Reaction("warning")
ReactionDenied == Reaction("no_entry")
ReactionSuccess == Reaction("check_mark")
ReactionError == Reaction("cross_mark")
\* "Too many requests. Please wait %d seconds."
WaitMsg == Text("Too many requests. Please wait", <<>>)
\* concurrentLimitMsg
ConcurrentLimitMsg == Text("Too many concurrent requests. Please try again later.", <<>>)

\* strings.Contains on sequences of words
Contains(s, pat) ==
  \E i \in 1..(Len(s) - Len(pat) + 1) : SubSeq(s, i, i + Len(pat) - 1) = pat

\* createPermissionDeniedMessage
createPermissionDeniedMessage(reason, userRank, isGroup) ==
  IF Contains(reason, <<"user", "not", "registered">>)
       \/ Contains(reason, <<"user", "not", "found">>)
  THEN IF isGroup
       THEN Text("You need to be registered to use bot commands in this group.", <<>>)
       ELSE Text("You need to be registered to use bot commands.", <<>>)
  ELSE IF isGroup /\ Contains(reason, <<"group", "not", "registered">>)
  THEN Text("This group is not registered for bot usage.", <<>>)
  ELSE IF Contains(reason, <<"insufficient", "rank">>)
            \/ Contains(reason, <<"insufficient", "permissions">>)
  THEN IF isGroup /\ userRank # ""
       THEN Text("You don't have sufficient permissions. Your rank:", <<userRank>>)
       ELSE Text("You don't have sufficient permissions.", <<>>)
  ELSE IF isGroup /\ (Contains(reason, <<"admin", "required">>)
                        \/ Contains(reason, <<"whatsapp", "admin">>))
  THEN Text("The command requires WhatsApp admin privileges in this group.", <<>>)
  ELSE IF Contains(reason, <<"command", "not", "allowed">>)
            \/ Contains(reason, <<"invalid", "command">>)
  THEN Text("The command is not available for your rank.", <<>>)
  ELSE Text("You don't have permission to use the command:", reason)

(***************************************************************************)
(* CommandHandler.HandleEvent, one goroutine per inbound message           *)
(*                                                                         *)
(*   idle    --HandleEvent-------> rate | idle                             *)
(*   rate    --RateCheck---------> clear | notify | idle                   *)
(*   clear   --NotifierClear-----> acquire                                 *)
(*   notify  --ShouldNotifyRead--> stamp | idle                            *)
(*   stamp   --ShouldNotifyStamp-> idle                                    *)
(*   acquire --Acquire-----------> exec | idle                             *)
(*   exec    --Execute-----------> release                                 *)
(*   release --Release-----------> idle                                    *)
(*                                                                         *)
(* A step that makes HandleEvent return clears the goroutine's locals.     *)
(***************************************************************************)
\* the commands main.go registers: help and latex
Registry == {CmdHelp, CmdLatex}

\* a context builder that lets the command through when the check fails
BuildContextFailOpen(sender, group, text, fault, isAdmin) ==
  LET command == extractCommand(text)
      res == CheckPermission(sender, group, command, fault, isAdmin)
  IN IF command = <<>>
     THEN [NoContext EXCEPT !.sender = sender, !.group = group]
     ELSE [sender |-> sender, group |-> group, command |-> command,
           checked |-> TRUE, Allowed |-> res.err # "ok" \/ res.Allowed,
           Reason |-> res.Reason, UserRank |-> res.UserRank]

\* a context builder that drops the command when the check fails
BuildContextSilentOnError(sender, group, text, fault, isAdmin) ==
  LET command == extractCommand(text)
      res == CheckPermission(sender, group, command, fault, isAdmin)
  IN IF command = <<>> \/ res.err # "ok"
     THEN [NoContext EXCEPT !.sender = sender, !.group = group]
     ELSE [sender |-> sender, group |-> group, command |-> command,
           checked |-> TRUE, Allowed |-> res.Allowed,
           Reason |-> res.Reason, UserRank |-> res.UserRank]

\* contextBuilder.BuildContext
BuildContext(sender, group, text, fault, isAdmin) ==
  LET command == extractCommand(text)
      res == CheckPermission(sender, group, command, fault, isAdmin)
  IN IF command = <<>>
     THEN [NoContext EXCEPT !.sender = sender, !.group = group]
     ELSE IF res.err # "ok"
     THEN [sender |-> sender, group |-> group, command |-> command,
           checked |-> TRUE, Allowed |-> FALSE,
           Reason |-> ReasonCheckFailed(res.err), UserRank |-> ""]
     ELSE [sender |-> sender, group |-> group, command |-> command,
           checked |-> TRUE, Allowed |-> res.Allowed,
           Reason |-> res.Reason, UserRank |-> res.UserRank]

\* MessageContext.IsCommand
IsCommand(mc) == mc.command # <<>>

\* a gate that looks only at whether a check was made
IsAllowedUnchecked(mc) == mc.checked

\* MessageContext.IsAllowed
IsAllowed(mc) == mc.checked /\ mc.Allowed

\* the step of goroutine p sends msgs and ends the dispatch, which returns
\* ret after handling err
Return(p, ret, err, msgs) ==
  /\ pc' = [pc EXCEPT ![p] = "idle"]
  /\ mctx' = [mctx EXCEPT ![p] = NoContext]
  /\ rateErr' = [rateErr EXCEPT ![p] = NoRateErr]
  /\ outcome' = [outcome EXCEPT ![p] = None]
  /\ event' = [proc |-> p, returned |-> ret, err |-> err, sent |-> msgs]
  /\ lastPerm' = NoPerm

\* the step of goroutine p goes on to position next after sending msgs
Goto(p, next, msgs) ==
  /\ pc' = [pc EXCEPT ![p] = next]
  /\ event' = [proc |-> p, returned |-> None, err |-> None, sent |-> msgs]
  /\ lastPerm' = NoPerm

HandleEvent(p, sender, group, text, fault, isAdmin) ==
  LET mc == BuildContext(sender, group, text, fault, isAdmin)
  IN /\ pc[p] = "idle"
     /\ IF ~IsCommand(mc)
        THEN Return(p, "nil", None, <<>>)
        ELSE IF ~IsAllowed(mc)
        THEN \* handlePermissionDeniedFromContext
             Return(p, "ErrPermissionDenied", "ErrPermissionDenied",
                    <<ReactionDenied,
                      createPermissionDeniedMessage(mc.Reason, mc.UserRank,
                                                    group # PrivateChat)>>)
        ELSE /\ Goto(p, "rate", <<>>)
             /\ mctx' = [mctx EXCEPT ![p] = mc]
             /\ UNCHANGED <<rateErr, outcome>>
     /\ UNCHANGED <<extVars,
                    now, storeVars, rateVars, semaphore, held, histVars>>

\* a rate check whose result the dispatch does not look at
RateCheckIgnored(p) ==
  LET user == mctx[p].sender
      result == LimiterCheck(requests[user], now)
  IN /\ pc[p] = "rate"
     /\ requests' = [requests EXCEPT ![user] = result.requests]
     /\ Goto(p, "clear", <<>>)
     /\ UNCHANGED <<mctx, rateErr, outcome>>
     /\ UNCHANGED <<extVars,
                    now, storeVars, notifiedTime, running, semaphore, held,
                    histVars>>

\* RateLimitService.Check up to the return of limiter.Check
RateCheck(p) ==
  LET user == mctx[p].sender
      result == LimiterCheck(requests[user], now)
  IN /\ pc[p] = "rate"
     /\ IF ~running
        THEN \* ErrServiceNotRunning: handleRateLimitError logs and returns
             /\ Return(p, "nil", "ErrServiceNotRunning", <<>>)
             /\ UNCHANGED requests
        ELSE /\ requests' = [requests EXCEPT ![user] = result.requests]
             /\ IF result.Allowed
                THEN /\ Goto(p, "clear", <<>>)
                     /\ UNCHANGED <<mctx, rateErr, outcome>>
                ELSE /\ Goto(p, "notify", <<>>)
                     /\ rateErr' = [rateErr EXCEPT ![p] =
                          [kind |-> "RateLimitError",
                           ResetAfter |-> result.ResetAfter, Notify |-> FALSE,
                           at |-> now]]
                     /\ UNCHANGED <<mctx, outcome>>
     /\ UNCHANGED <<extVars,
                    now, storeVars, notifiedTime, running, semaphore, held,
                    histVars>>

\* RateLimitService.Check, allowed: s.notifier.Clear(msg.Sender)
NotifierClear(p) ==
  /\ pc[p] = "clear"
  /\ notifiedTime' = [notifiedTime EXCEPT ![mctx[p].sender] = NotNotified]
  /\ Goto(p, "acquire", <<>>)
  /\ UNCHANGED <<extVars, now, storeVars, requests, running, semaphore,
                 mctx, rateErr, held, outcome, histVars>>

\* the earlier handleRateLimit: nothing at all unless the throttle agrees
RateLimitFeedbackThrottled(notify) ==
  IF notify THEN <<ReactionWarning, WaitMsg>> ELSE <<>>

\* handleRateLimitError for a *RateLimitError
RateLimitFeedback(notify) ==
  IF notify THEN <<ReactionWarning, WaitMsg>> ELSE <<ReactionWarning>>

\* Notifier.ShouldNotify: the read under RLock and the decision
ShouldNotifyRead(p) ==
  /\ pc[p] = "notify"
  /\ IF ShouldNotifyDecision(notifiedTime[mctx[p].sender], now)
     THEN /\ Goto(p, "stamp", <<>>)
          /\ UNCHANGED <<mctx, rateErr, outcome>>
     ELSE Return(p, "nil", "RateLimitError", RateLimitFeedback(FALSE))
  /\ UNCHANGED <<extVars, now, storeVars, rateVars, semaphore, held, histVars>>

\* Notifier.ShouldNotify: the write under Lock, then the feedback
ShouldNotifyStamp(p) ==
  /\ pc[p] = "stamp"
  /\ notifiedTime' = [notifiedTime EXCEPT ![mctx[p].sender] = now]
  /\ Return(p, "nil", "RateLimitError", RateLimitFeedback(TRUE))
  /\ UNCHANGED <<extVars,
                 now, storeVars, requests, running, semaphore, held, histVars>>

\* a send that never finds the channel full
acquireUnbounded(sem, ctxDone) ==
  {"acquired"} \cup (IF ctxDone THEN {"ctx_done"} ELSE {})

\* a select without its default case: it waits for a case to be ready
acquireBlocking(sem, ctxDone) ==
  (IF sem < MaxConcurrent THEN {"acquired"} ELSE {})
    \cup (IF ctxDone THEN {"ctx_done"} ELSE {})

\* a select that keeps one slot of the channel unused
acquireOneSlotShort(sem, ctxDone) ==
  LET ready == (IF sem + 1 < MaxConcurrent THEN {"acquired"} ELSE {})
                 \cup (IF ctxDone THEN {"ctx_done"} ELSE {})
  IN IF ready = {} THEN {"ErrTooManyConcurrent"} ELSE ready

\* acquireSemaphore: the results the select can produce.  A case is ready
\* when the channel has room (send) or the context is done; default runs
\* only when no case is ready.
acquireSemaphore(sem, ctxDone) ==
  LET ready == (IF sem < MaxConcurrent THEN {"acquired"} ELSE {})
                 \cup (IF ctxDone THEN {"ctx_done"} ELSE {})
  IN IF ready = {} THEN {"ErrTooManyConcurrent"} ELSE ready

Acquire(p, ctxDone) ==
  /\ pc[p] = "acquire"
  /\ \E res \in acquireSemaphore(semaphore, ctxDone) :
       IF res = "acquired"
       THEN /\ semaphore' = semaphore + 1
            /\ held' = [held EXCEPT ![p] = TRUE]
            /\ Goto(p, "exec", <<>>)
            /\ UNCHANGED <<mctx, rateErr, outcome>>
       ELSE \* handleConcurrencyLimit
            /\ Return(p, "nil", res, <<ReactionWarning, ConcurrentLimitMsg>>)
            /\ UNCHANGED <<semaphore, held>>
  /\ UNCHANGED <<extVars, now, storeVars, rateVars, histVars>>

\* how cmd.Handle can end
HandlerResults == {"ok", "error", "panic"}

\* the success reaction sent however cmd.Handle ended
OutcomeReactionAlwaysSuccess(result) == <<ReactionSuccess>>

\* what executeCommandWithContext sends once cmd.Handle has ended:
\* sendErrorReaction on an error, sendSuccessReaction on nil, and nothing
\* when the handler panicked
OutcomeReaction(result) ==
  IF result = "ok" THEN <<ReactionSuccess>>
  ELSE IF result = "error" THEN <<ReactionError>>
  ELSE <<>>

\* executeCommandWithContext
Execute(p, result) ==
  /\ pc[p] = "exec"
  /\ IF mctx[p].command \notin Registry
     THEN /\ outcome' = [outcome EXCEPT ![p] = "ErrCommandNotFound"]
          /\ Goto(p, "release", <<>>)
     ELSE /\ outcome' = [outcome EXCEPT ![p] = result]
          /\ Goto(p, "release", OutcomeReaction(result))
  /\ UNCHANGED <<extVars,
                 now, storeVars, rateVars, semaphore, mctx, rateErr, held, histVars>>

\* release() called after the handler instead of deferred
ReleaseUnlessPanic(exit) == exit # "panic"

\* release() called only on the path on which a handler has run
ReleaseAfterHandlerOnly(exit) == exit \in HandlerResults

\* defer release(): the deferred call runs however the closure is left
ReleaseRuns(exit) == TRUE

Release(p) ==
  /\ pc[p] = "release"
  /\ Return(p, IF outcome[p] = "ok" THEN "nil" ELSE outcome[p], None, <<>>)
  /\ IF ReleaseRuns(outcome[p])
     THEN /\ semaphore' = semaphore - 1
          /\ held' = [held EXCEPT ![p] = FALSE]
     ELSE UNCHANGED <<semaphore, held>>
  /\ UNCHANGED <<extVars, now, storeVars, rateVars, histVars>>

\* CommandHandler.Close: rateService.Stop
Close ==
  /\ ~cleanerPanic
  /\ running
  /\ RateLimitServiceStop
  /\ event' = NoEvent
  /\ lastPerm' = NoPerm
  /\ UNCHANGED <<limVars, cgCall, rkCall, now, storeVars, requests, notifiedTime, semaphore,
                 dispVars, histVars>>

(***************************************************************************)
(* Spec: concurrent dispatches over a store that the auth API changes      *)
(***************************************************************************)
GroupIds == Groups \cup {PrivateChat}

\* the users that send commands and get registered; the others never are
Members == {"alice"}

\* the message texts the dispatches are given
DispatchTexts ==
  {<<"h">>, <<"!", " ">>, <<"!", "h">>, <<"!", "z", " ", "x">>}
DispatchFaults(text) == IF extractCommand(text) = <<>> THEN {None} ELSE Faults

DispatchStep ==
  \E p \in Procs :
    \/ \E sender \in Members, group \in GroupIds, text \in DispatchTexts :
         \E fault \in DispatchFaults(text) :
           HandleEvent(p, sender, group, text, fault, FALSE)
    \/ RateCheck(p)
    \/ NotifierClear(p)
    \/ ShouldNotifyRead(p)
    \/ ShouldNotifyStamp(p)
    \/ \E ctxDone \in BOOLEAN : Acquire(p, ctxDone)
    \/ \E result \in HandlerResults : Execute(p, result)
    \/ Release(p)

StoreStep ==
  \/ \E u \in Members : CreateUser(u, "basic")
  \/ \E g \in Groups, u \in Members : CreateGroup(g, u)
  \/ \E c \in CommandSets : UpdateRank("basic", c, TRUE)

Next ==
  \/ DispatchStep
  \/ StoreStep
  \/ Close

Spec == Init /\ [][Next]_vars

(***************************************************************************)
(* SpecLimiter: Limiter.Check called directly while the clock advances     *)
(***************************************************************************)
LimiterCheckCall(user) ==
  LET result == LimiterCheck(requests[user], now)
  IN /\ Len(calls) < MaxCalls
     /\ requests' = [requests EXCEPT ![user] = result.requests]
     /\ calls' = Append(calls, [user |-> user, t |-> now,
                                before |-> requests[user],
                                Allowed |-> result.Allowed,
                                ResetAfter |-> result.ResetAfter])
     /\ event' = NoEvent
     /\ lastPerm' = NoPerm
     /\ UNCHANGED <<extVars,
                    now, storeVars, notifiedTime, running, semaphore, dispVars,
                    ncalls>>

NextLimiter ==
  \/ \E u \in Users : LimiterCheckCall(u)
  \/ Tick(MaxTime)

SpecLimiter == Init /\ [][NextLimiter]_vars

(***************************************************************************)
(* SpecNotifier: the Notifier called directly by one caller at a time      *)
(***************************************************************************)
ShouldNotifyCall(user) ==
  LET shouldNotify == ShouldNotifyDecision(notifiedTime[user], now)
  IN /\ Len(ncalls) < MaxCalls
     /\ notifiedTime' = IF shouldNotify
                        THEN [notifiedTime EXCEPT ![user] = now]
                        ELSE notifiedTime
     /\ ncalls' = Append(ncalls, [op |-> "ShouldNotify", user |-> user,
                                  t |-> now, result |-> shouldNotify])
     /\ event' = NoEvent
     /\ lastPerm' = NoPerm
     /\ UNCHANGED <<extVars,
                    now, storeVars, requests, running, semaphore, dispVars,
                    calls>>

ClearNotificationCall(user) ==
  /\ Len(ncalls) < MaxCalls
  /\ notifiedTime' = [notifiedTime EXCEPT ![user] = NotNotified]
  /\ ncalls' = Append(ncalls, [op |-> "Clear", user |-> user,
                               t |-> now, result |-> FALSE])
  /\ event' = NoEvent
  /\ lastPerm' = NoPerm
  /\ UNCHANGED <<extVars,
                 now, storeVars, requests, running, semaphore, dispVars,
                 calls>>

NextNotifier ==
  \/ \E u \in Users : ShouldNotifyCall(u)
  \/ \E u \in Users : ClearNotificationCall(u)
  \/ Tick(MaxTime)

SpecNotifier == Init /\ [][NextNotifier]_vars

(***************************************************************************)
(* SpecAuth: CheckPermission called directly while the store changes       *)
(***************************************************************************)
CheckPermissionCall(userID, groupID, command, fault, isAdmin) ==
  /\ lastPerm' =
       [userID |-> userID, groupID |-> groupID, command |-> command,
        fault |-> fault,
        groupRegistered |-> IF groupID = PrivateChat THEN FALSE
                            ELSE GetGroup(groupID) = "ok",
        userRegistered |-> GetUser(userID).err = "ok",
        result |-> CheckPermission(userID, groupID, command, fault, isAdmin)]
  /\ event' = NoEvent
  /\ UNCHANGED <<extVars,
                 now, storeVars, rateVars, semaphore, dispVars, calls, ncalls>>

AuthStoreStep ==
  \/ \E u \in Members, r \in RankNames : CreateUser(u, r)
  \/ \E u \in Members : DeleteUser(u)
  \/ \E g \in Groups, u \in Members : CreateGroup(g, u)
  \/ \E g \in Groups : DeleteGroup(g)
  \/ \E c \in AuthCommandSets, a \in BOOLEAN : UpdateRank("basic", c, a)

NextAuth ==
  \/ \E u \in Users, g \in GroupIds, c \in CommandNames,
        fault \in Faults, isAdmin \in BOOLEAN :
       CheckPermissionCall(u, g, c, fault, isAdmin)
  \/ AuthStoreStep

SpecAuth == Init /\ [][NextAuth]_vars

(***************************************************************************)
(* SpecGroups: every goroutine makes one CreateGroup call; the calls       *)
(* interleave statement by statement while users get registered            *)
(***************************************************************************)
GroupUserStep == \E u \in Users, r \in RankNames : CreateUser(u, r)

CreateGroupStep ==
  \E p \in Procs :
    \/ \E g \in Groups, u \in Users : CreateGroupCheck(p, g, u)
    \/ CreateGroupInsert(p)

NextGroups ==
  \/ GroupUserStep
  \/ CreateGroupStep

SpecGroups == Init /\ [][NextGroups]_vars

(***************************************************************************)
(* SpecBusy: authorized users send the same command in private chats, more *)
(* dispatches at a time than there are slots                               *)
(***************************************************************************)
BusyText == <<"!", "h">>

BusyDispatchStep ==
  \E p \in Procs :
    \/ \E sender \in Users :
         HandleEvent(p, sender, PrivateChat, BusyText, None, FALSE)
    \/ RateCheck(p)
    \/ NotifierClear(p)
    \/ ShouldNotifyRead(p)
    \/ ShouldNotifyStamp(p)
    \/ \E ctxDone \in BOOLEAN : Acquire(p, ctxDone)
    \/ \E result \in HandlerResults : Execute(p, result)
    \/ Release(p)

BusyStoreStep ==
  \/ \E u \in Users : CreateUser(u, "basic")
  \/ UpdateRank("basic", {CmdHelp}, TRUE)

NextBusy ==
  \/ BusyDispatchStep
  \/ BusyStoreStep

SpecBusy == Init /\ [][NextBusy]_vars

(***************************************************************************)
(* SpecCleaner: the AutoCleaner and its runCleanup goroutines, driven by   *)
(* the rate-limit service and by direct Register and Stop calls            *)
(***************************************************************************)
RegisterCall(cleanable) ==
  /\ ~cleanerPanic
  /\ Register(cleanable)
  /\ event' = NoEvent
  /\ lastPerm' = NoPerm
  /\ UNCHANGED <<limVars, cgCall, rkCall, now, storeVars, rateVars, semaphore, dispVars,
                 histVars>>

StopCall ==
  /\ ~cleanerPanic
  /\ isRunning
  /\ AutoCleanerStop
  /\ event' = NoEvent
  /\ lastPerm' = NoPerm
  /\ UNCHANGED <<limVars, cgCall, rkCall, now, storeVars, rateVars, semaphore, dispVars,
                 histVars>>

StartCall ==
  /\ ~cleanerPanic
  /\ ~running
  /\ RateLimitServiceStart
  /\ event' = NoEvent
  /\ lastPerm' = NoPerm
  /\ UNCHANGED <<limVars, cgCall, rkCall, now, storeVars, requests, notifiedTime, semaphore,
                 dispVars, histVars>>

\* the runtime puts a tick into ticker.C unless one is waiting there
TickerFire ==
  /\ ~cleanerPanic
  /\ tickerOn
  /\ tickerC = 0
  /\ tickerC' = 1
  /\ event' = NoEvent
  /\ lastPerm' = NoPerm
  /\ UNCHANGED <<limVars, cgCall, rkCall, cleanables, isRunning, stopCleaner, tickerOn, sweep,
                 cleanerPanic, now, storeVars, rateVars, semaphore, dispVars,
                 histVars>>

\* runCleanup: case <-c.ticker.C
SweepTick(i) ==
  /\ ~cleanerPanic
  /\ sweep[i] = "select"
  /\ tickerC = 1
  /\ tickerC' = 0
  /\ sweep' = [sweep EXCEPT ![i] = "clean"]
  /\ event' = NoEvent
  /\ lastPerm' = NoPerm
  /\ UNCHANGED <<limVars, cgCall, rkCall, cleanables, isRunning, stopCleaner, tickerOn,
                 cleanerPanic, now, storeVars, rateVars, semaphore, dispVars,
                 histVars>>

\* runCleanup: c.CleanAll()
CleanAll(i) ==
  /\ ~cleanerPanic
  /\ sweep[i] = "clean"
  /\ requests' = IF "limiter" \in Range(cleanables)
                 THEN LimiterCleanup(requests, now)
                 ELSE requests
  /\ notifiedTime' = IF "notifier" \in Range(cleanables)
                     THEN NotifierCleanup(notifiedTime, now)
                     ELSE notifiedTime
  /\ sweep' = [sweep EXCEPT ![i] = "select"]
  /\ event' = NoEvent
  /\ lastPerm' = NoPerm
  /\ UNCHANGED <<limVars, cgCall, rkCall, cleanables, isRunning, stopCleaner, tickerOn, tickerC,
                 cleanerPanic, now, storeVars, running, semaphore, dispVars,
                 histVars>>

\* runCleanup: case <-c.stopCleaner
SweepExit(i) ==
  /\ ~cleanerPanic
  /\ sweep[i] = "select"
  /\ stopCleaner = "closed"
  /\ sweep' = [sweep EXCEPT ![i] = "exited"]
  /\ event' = NoEvent
  /\ lastPerm' = NoPerm
  /\ UNCHANGED <<limVars, cgCall, rkCall, cleanables, isRunning, stopCleaner, tickerOn, tickerC,
                 cleanerPanic, now, storeVars, rateVars, semaphore, dispVars,
                 histVars>>

SweeperStep ==
  \E i \in Sweepers :
    \/ SweepTick(i)
    \/ CleanAll(i)
    \/ SweepExit(i)

CleanerCallStep ==
  \/ \E c \in Cleanables : RegisterCall(c)
  \/ StopCall
  \/ StartCall
  \/ Close

CleanerLoadStep ==
  \/ Tick(MaxTime)
  \/ \E u \in Members : LimiterCheckCall(u)

NextCleaner ==
  \/ CleanerCallStep
  \/ SweeperStep
  \/ TickerFire
  \/ CleanerLoadStep

SpecCleaner == Init /\ [][NextCleaner]_vars

\* a runnable goroutine is scheduled: one that stands at the select with
\* stopCleaner closed leaves, one that is in CleanAll finishes it
SpecCleanerLive ==
  /\ SpecCleaner
  /\ \A i \in Sweepers : WF_vars(SweepExit(i)) /\ WF_vars(CleanAll(i))

(***************************************************************************)
(* SpecRanks: goroutines call CreateRank and UpdateRank of the service     *)
(***************************************************************************)
RankOps == {"create", "update"}

NextRanks ==
  \E p \in Procs :
    \/ \E op \in RankOps, name \in AllRankNames, level \in RankLevels :
         RankValidate(p, op, name, level)
    \/ RankWrite(p)
    \/ RankReturn(p)

SpecRanks == Init /\ [][NextRanks]_vars

(***************************************************************************)
(* SpecLimiterLocked: goroutines call Limiter.Check concurrently; the call *)
(* is taken statement by statement, under l.mu                             *)
(***************************************************************************)
\* a mutex that never blocks
MutexAlwaysFree(mu) == TRUE

\* l.mu.Lock() returns when no goroutine holds the mutex
MutexFree(mu) == mu = 0

\* the call is made and waits at l.mu.Lock()
LimiterCall(p, user) ==
  /\ limCall[p].pc = "idle"
  /\ Len(calls) < MaxCalls
  /\ limCall' = [limCall EXCEPT ![p] = [NoLimiterCall EXCEPT !.pc = "lock",
                                                             !.user = user]]
  /\ event' = NoEvent
  /\ lastPerm' = NoPerm
  /\ UNCHANGED <<limMu, cgCall, rkCall, cleanerVars, now, storeVars, rateVars,
                 semaphore, dispVars, histVars>>

\* l.mu.Lock()
LimiterLock(p) ==
  /\ limCall[p].pc = "lock"
  /\ MutexFree(limMu)
  /\ limMu' = p
  /\ limCall' = [limCall EXCEPT ![p].pc = "locked"]
  /\ event' = NoEvent
  /\ lastPerm' = NoPerm
  /\ UNCHANGED <<cgCall, rkCall, cleanerVars, now, storeVars, rateVars,
                 semaphore, dispVars, histVars>>

\* now := time.Now(); requests := l.requests[user]; the filter, resetAfter
\* and allowed
LimiterRead(p) ==
  /\ limCall[p].pc = "locked"
  /\ limCall' = [limCall EXCEPT ![p].pc = "computed",
                                ![p].t = now,
                                ![p].before = requests[limCall[p].user],
                                ![p].result =
                                  LimiterCheck(requests[limCall[p].user], now)]
  /\ event' = NoEvent
  /\ lastPerm' = NoPerm
  /\ UNCHANGED <<limMu, cgCall, rkCall, cleanerVars, now, storeVars, rateVars,
                 semaphore, dispVars, histVars>>

\* l.requests[user] = validRequests when allowed; return, with the deferred
\* l.mu.Unlock()
LimiterWrite(p) ==
  LET c == limCall[p]
  IN /\ c.pc = "computed"
     /\ requests' = IF c.result.Allowed
                    THEN [requests EXCEPT ![c.user] = c.result.requests]
                    ELSE requests
     /\ calls' = Append(calls, [user |-> c.user, t |-> c.t,
                                before |-> c.before,
                                Allowed |-> c.result.Allowed,
                                ResetAfter |-> c.result.ResetAfter])
     /\ limMu' = IF limMu = p THEN 0 ELSE limMu
     /\ limCall' = [limCall EXCEPT ![p] = NoLimiterCall]
     /\ event' = NoEvent
     /\ lastPerm' = NoPerm
     /\ UNCHANGED <<cgCall, rkCall, cleanerVars, now, storeVars, notifiedTime,
                    running, semaphore, dispVars, ncalls>>

NextLimiterLocked ==
  \/ \E p \in Procs :
       \/ \E u \in Users : LimiterCall(p, u)
       \/ LimiterLock(p)
       \/ LimiterRead(p)
       \/ LimiterWrite(p)
  \/ Tick(MaxTime)

SpecLimiterLocked == Init /\ [][NextLimiterLocked]_vars

(***************************************************************************)
(* SpecRate: one registered user sends an allowed command from concurrent  *)
(* dispatches while the clock advances                                     *)
(***************************************************************************)
NextRate ==
  \/ \E p \in Procs :
       \/ \E sender \in Members :
            HandleEvent(p, sender, PrivateChat, BusyText, None, FALSE)
       \/ RateCheck(p)
       \/ NotifierClear(p)
       \/ ShouldNotifyRead(p)
       \/ ShouldNotifyStamp(p)
       \/ \E ctxDone \in BOOLEAN : Acquire(p, ctxDone)
       \/ \E result \in HandlerResults : Execute(p, result)
       \/ Release(p)
  \/ \E u \in Members : CreateUser(u, "basic")
  \/ UpdateRank("basic", {CmdHelp}, TRUE)
  \/ Tick(MaxTime)

SpecRate == Init /\ [][NextRate]_vars

(***************************************************************************)
(* SpecNotifierRace: goroutines whose rate check was denied call           *)
(* Notifier.ShouldNotify concurrently; nothing clears a record             *)
(***************************************************************************)
\* RateLimitService.Check on a denial: the call of s.notifier.ShouldNotify
ShouldNotifyEnter(p, user) ==
  /\ pc[p] = "idle"
  /\ Goto(p, "notify", <<>>)
  /\ mctx' = [mctx EXCEPT ![p] = [NoContext EXCEPT !.sender = user]]
  /\ rateErr' = [rateErr EXCEPT ![p] =
       [kind |-> "RateLimitError", ResetAfter |-> 0, Notify |-> FALSE,
        at |-> now]]
  /\ UNCHANGED <<extVars, now, storeVars, rateVars, semaphore, held, outcome,
                 histVars>>

NextNotifierRace ==
  \/ \E p \in Procs :
       \/ \E u \in Users : ShouldNotifyEnter(p, u)
       \/ ShouldNotifyRead(p)
       \/ ShouldNotifyStamp(p)
  \/ Tick(MaxTime)

SpecNotifierRace == Init /\ [][NextNotifierRace]_vars

(***************************************************************************)
(* Properties                                                              *)
(***************************************************************************)
Holders == {p \in Procs : held[p]}

\* C1: at every moment the number of admission slots held (acquired and not
\* yet released) is at most MaxConcurrent, and the channel holds exactly one
\* element per holder.
C1_HeldSlotsBounded ==
  /\ Cardinality(Holders) <= MaxConcurrent
  /\ semaphore = Cardinality(Holders)

\* every slot is held while one more dispatch stands at the admission gate
C1_Witness ==
  /\ Cardinality(Holders) = MaxConcurrent
  /\ \E p \in Procs : pc[p] = "acquire" /\ ~held[p]

\* C2: a dispatch that has reached executeCommandWithContext, where the
\* handler is invoked, carries an evaluator result that is Allowed; a denial
\* never gets that far.
C2_NoHandlerOnDenial ==
  \A p \in Procs :
    pc[p] \in {"exec", "release"} => mctx[p].checked /\ mctx[p].Allowed

\* a dispatch was denied by the permission check and ended there while the
\* handler of another dispatch has run
C2_Witness ==
  /\ event.returned = "ErrPermissionDenied"
  /\ \E p \in Procs : pc[p] = "release" /\ outcome[p] \in HandlerResults

\* C3: the first step of a dispatch, which makes the permission check,
\* leaves every rate-limit window, the channel and the holders as they
\* were, and the dispatch goes on to the rate limiter only if the check
\* returned without error and Allowed; a denied command ends in that step
\* with nothing consumed.
C3_DeniedConsumesNothing ==
  [][\A p \in Procs :
       (pc[p] = "idle" /\ event'.proc = p)
       => /\ requests' = requests
          /\ semaphore' = semaphore
          /\ held' = held
          /\ pc'[p] # "idle" =>
               \A sender \in Members, group \in GroupIds,
                  text \in DispatchTexts, fault \in Faults :
                 HandleEvent(p, sender, group, text, fault, FALSE) =>
                   LET res == CheckPermission(sender, group,
                                              extractCommand(text), fault, FALSE)
                   IN res.err = "ok" /\ res.Allowed]_vars

\* a dispatch was denied while the sender had budget recorded and a slot
\* was held
C3_Witness ==
  /\ event.err = "ErrPermissionDenied"
  /\ \E u \in Members : requests[u] # <<>>
  /\ semaphore > 0

\* C4: a goroutine whose dispatch has ended holds no slot, however the
\* handler was left.
C4_SlotReleasedAtEnd ==
  \A p \in Procs : pc[p] = "idle" => ~held[p]

\* a dispatch whose handler panicked has ended and holds nothing
C4_Witness ==
  /\ event.returned = "panic"
  /\ pc[event.proc] = "idle"
  /\ ~held[event.proc]

\* C5: with every slot held, the admission step of a dispatch takes no slot
\* and ends the dispatch in that same step with the "too many concurrent"
\* feedback, the error being ErrTooManyConcurrent or the context's; and the
\* admission step is always enabled, so no dispatch waits at the gate.
C5_AcquireFailsImmediately ==
  /\ [][\A p \in Procs :
          (pc[p] = "acquire" /\ semaphore = MaxConcurrent /\ pc'[p] # pc[p])
          => (/\ pc'[p] = "idle"
              /\ semaphore' = semaphore
              /\ ~held'[p]
              /\ event'.proc = p
              /\ event'.err \in {"ErrTooManyConcurrent", "ctx_done"}
              /\ event'.sent = <<ReactionWarning, ConcurrentLimitMsg>>)]_vars
  /\ [](\A p \in Procs : pc[p] = "acquire" => ENABLED Acquire(p, FALSE))

\* a dispatch was turned away with ErrTooManyConcurrent while every slot
\* was held
C5_Witness ==
  /\ event.err = "ErrTooManyConcurrent"
  /\ semaphore = MaxConcurrent

\* the direct Limiter.Check calls made for user u, in order
UserCalls(u) == SelectSeq(calls, LAMBDA c : c.user = u)

\* the calls i .. i+maxRequests of cu all fall within one window that was
\* empty when it began
Burst(cu, i) ==
  /\ i + maxRequests <= Len(cu)
  /\ \A k \in 1..Len(cu[i].before) : cu[i].t - cu[i].before[k] > period
  /\ cu[i + maxRequests].t - cu[i].t <= period

\* C6: for every user, of maxRequests + 1 calls of Check within one window
\* the first maxRequests return Allowed = TRUE and the last Allowed = FALSE.
C6_WindowLimit ==
  \A u \in Users :
    LET cu == UserCalls(u)
    IN \A i \in 1..Len(cu) :
         Burst(cu, i) =>
           /\ \A j \in i..(i + maxRequests - 1) : cu[j].Allowed
           /\ ~cu[i + maxRequests].Allowed

\* a user made maxRequests + 1 calls within one window, the last of them
\* at the very end of the window
C6_Witness ==
  \E u \in Users :
    LET cu == UserCalls(u)
    IN \E i \in 1..Len(cu) :
         Burst(cu, i) /\ cu[i + maxRequests].t - cu[i].t = period

\* C7: a call of Check made when more than the period has passed since the
\* oldest timestamp recorded for the user returns Allowed = TRUE.
C7_AllowedAfterWindow ==
  \A k \in 1..Len(calls) :
    (calls[k].before # <<>> /\ calls[k].t - SeqMin(calls[k].before) > period)
    => calls[k].Allowed

\* a user who was denied is allowed again once the oldest timestamp expired
C7_Witness ==
  \E k \in 2..Len(calls) :
    /\ calls[k].before # <<>>
    /\ calls[k].t - SeqMin(calls[k].before) > period
    /\ calls[k].Allowed
    /\ \E j \in 1..(k - 1) : calls[j].user = calls[k].user /\ ~calls[j].Allowed

\* C8: the step that ends a dispatch on a rate-limit denial sends the
\* warning reaction first, and sends the wait text exactly when ShouldNotify
\* decided TRUE for it (the goroutine had gone on to stamp the notification).
C8_RateLimitFeedback ==
  [][\A p \in Procs :
       (pc[p] \in {"notify", "stamp"} /\ pc'[p] = "idle")
       => (/\ event'.proc = p
           /\ event'.sent # <<>>
           /\ event'.sent[1] = ReactionWarning
           /\ (WaitMsg \in Range(event'.sent) <=> pc[p] = "stamp"))]_vars

\* a rate-limit denial inside the cooldown ended with the reaction alone
C8_Witness ==
  /\ event.err = "RateLimitError"
  /\ event.sent = <<ReactionWarning>>
  /\ \E u \in Members : notifiedTime[u] # NotNotified

\* the calls made for the user of ncalls[i] before it
Earlier(i) == {j \in 1..(i - 1) : ncalls[j].user = ncalls[i].user}

\* the last of a non-empty set of indices
Last(S) == CHOOSE j \in S : \A k \in S : k <= j

\* ncalls[j] stamped a notification that is still in force at ncalls[i]: it
\* returned TRUE, no Clear came between, and the cooldown has not run out
InCooldown(j, i) ==
  /\ ncalls[j].op = "ShouldNotify"
  /\ ncalls[j].result
  /\ \A k \in Earlier(i) : k > j => ncalls[k].op # "Clear"
  /\ ncalls[i].t - ncalls[j].t <= notifyPeriod

\* C9: ShouldNotify returns TRUE on the first call for a user, FALSE on a
\* call inside the cooldown of an earlier TRUE, and TRUE on the first call
\* after ClearNotification.
C9_NotifyThrottle ==
  \A i \in 1..Len(ncalls) :
    ncalls[i].op = "ShouldNotify" =>
      /\ Earlier(i) = {} => ncalls[i].result
      /\ (Earlier(i) # {} /\ ncalls[Last(Earlier(i))].op = "Clear")
           => ncalls[i].result
      /\ (\E j \in Earlier(i) : InCooldown(j, i)) => ~ncalls[i].result

\* one user was notified, then throttled, then cleared, then notified again
C9_Witness ==
  /\ Len(ncalls) >= 4
  /\ \A i \in 1..4 : ncalls[i].user = ncalls[1].user
  /\ ncalls[1].op = "ShouldNotify" /\ ncalls[1].result
  /\ ncalls[2].op = "ShouldNotify" /\ ~ncalls[2].result
  /\ ncalls[3].op = "Clear"
  /\ ncalls[4].op = "ShouldNotify" /\ ncalls[4].result
  /\ ncalls[4].t - ncalls[1].t <= notifyPeriod

PermUserActive ==
  users[lastPerm.userID].present /\ users[lastPerm.userID].active

\* the commands column of the rank of that user
PermRankCommands == ranks[users[lastPerm.userID].rank].commands

\* C11: a CheckPermission call whose lookups all answer, for a user whose
\* rank row is active, returns Allowed = TRUE if and only if the group id is
\* empty or names a registered group, and the user exists and is active,
\* and the commands of the user's rank contain the command or the wildcard.
C11_AllowedIff ==
  (/\ lastPerm # NoPerm
   /\ lastPerm.fault = None
   /\ PermUserActive => GetRank(users[lastPerm.userID].rank).err = "ok")
  => /\ lastPerm.result.err = "ok"
     /\ lastPerm.result.Allowed <=>
          /\ lastPerm.groupID = PrivateChat \/ lastPerm.groupRegistered
          /\ PermUserActive
          /\ \/ lastPerm.command \in PermRankCommands
             \/ CmdWildcard \in PermRankCommands

\* the CreateGroup calls that got past the check of the registering user
Finished(p) == cgCall[p].pc = "done" /\ cgCall[p].err # "ErrUserNotFound"

\* C12: of two CreateGroup calls for the same group id that run concurrently,
\* exactly one returns nil and the other returns ErrGroupAlreadyRegistered.
C12_CreateGroupAtomic ==
  \A p, q \in Procs :
    (/\ p # q
     /\ Finished(p)
     /\ Finished(q)
     /\ cgCall[p].groupID = cgCall[q].groupID)
    => {cgCall[p].err, cgCall[q].err} = {"ok", "ErrGroupAlreadyRegistered"}

RawStoreErrorText == <<"database", "error">>

\* C14: no text message a dispatch sends to the user contains the text of a
\* store error.
C14_NoRawErrorText ==
  \A i \in 1..Len(event.sent) :
    event.sent[i].kind = "text"
    => ~Contains(event.sent[i].arg, RawStoreErrorText)

\* the lookups of the permission check that take the context
LookupFaults == {"group", "user", "rank"}

\* the lookup named by fault is reached by this check and fails
FaultHit(sender, group, text, fault) ==
  /\ extractCommand(text) # <<>>
  /\ CheckPermission(sender, group, extractCommand(text), fault, FALSE)
       # CheckPermission(sender, group, extractCommand(text), None, FALSE)

\* the step has ended the dispatch of p as a denial, with its feedback
DeniedWithFeedback(p) ==
  /\ pc'[p] = "idle"
  /\ event'.returned = "ErrPermissionDenied"
  /\ Len(event'.sent) = 2
  /\ event'.sent[1] = ReactionDenied
  /\ event'.sent[2].kind = "text"

\* C15: a dispatch during whose permission check a store lookup fails on a
\* cancelled or expired context ends, in that step, as a denial: the handler
\* is not reached, nothing panics, and the denial reaction and the denial
\* text are sent.
C15_CancelledLookupDenied ==
  [][\A p \in Procs :
       (pc[p] = "idle" /\ event'.proc = p /\ ~DeniedWithFeedback(p))
       => \A sender \in Members, group \in GroupIds,
             text \in DispatchTexts, fault \in LookupFaults :
            ~(/\ FaultHit(sender, group, text, fault)
              /\ HandleEvent(p, sender, group, text, fault, FALSE))]_vars

\* a dispatch was denied with the reason of a failed check
C15_Witness ==
  /\ event.returned = "ErrPermissionDenied"
  /\ Len(event.sent) = 2
  /\ Contains(event.sent[2].arg, <<"permission", "check", "failed:">>)

\* the last CheckPermission call got as far as the rank lookup
ReachedRankLookup ==
  /\ lastPerm # NoPerm
  /\ lastPerm.groupID = PrivateChat
       \/ (lastPerm.groupRegistered /\ lastPerm.fault # "group")
  /\ lastPerm.userRegistered
  /\ lastPerm.fault # "user"

\* C16: a CheckPermission call during which the admin lookup fails returns
\* the Allowed it returns when the lookup answers, and IsWhatsAppAdmin FALSE.
C16_AdminUnknownNotAdmin ==
  (lastPerm # NoPerm /\ lastPerm.fault = "admin")
  => /\ lastPerm.result.err = "ok"
     /\ ~lastPerm.result.IsWhatsAppAdmin
     /\ lastPerm.result.Allowed
          = CheckPermission(lastPerm.userID, lastPerm.groupID,
                            lastPerm.command, None, TRUE).Allowed

\* a command was allowed in a group although the admin lookup failed
C16_Witness ==
  /\ lastPerm.fault = "admin"
  /\ lastPerm.groupID # PrivateChat
  /\ lastPerm.result.Allowed
  /\ ~lastPerm.result.IsWhatsAppAdmin

\* C17: a CheckPermission call that reaches the rank lookup and finds the
\* rank row missing or unreadable returns no error but the denial with the
\* reason "Unable to determine user permissions".
C17_RankUnreadableDenied ==
  (/\ ReachedRankLookup
   /\ \/ lastPerm.fault = "rank"
      \/ GetRank(users[lastPerm.userID].rank).err # "ok")
  => /\ lastPerm.result.err = "ok"
     /\ ~lastPerm.result.Allowed
     /\ lastPerm.result.Reason = ReasonUnableToDetermine

\* the rank of a registered user has been deactivated and a check for a
\* command that the rank lists was denied
C17_Witness ==
  /\ ReachedRankLookup
  /\ lastPerm.fault = None
  /\ ~ranks[users[lastPerm.userID].rank].active
  /\ lastPerm.command \in ranks[users[lastPerm.userID].rank].commands
  /\ lastPerm.result.Reason = ReasonUnableToDetermine

\* C18: no step removes a row of users or registered_groups; a step that
\* deactivates a row keeps it with its other columns, and GetUser or
\* GetGroup for an id whose row is inactive answers not found.
C18_SoftDelete ==
  /\ [][/\ \A u \in Users :
             /\ users[u].present => users'[u].present
             /\ (users[u].active /\ ~users'[u].active)
                  => users'[u] = [users[u] EXCEPT !.active = FALSE]
        /\ \A g \in Groups :
             /\ groups[g].present => groups'[g].present
             /\ (groups[g].active /\ ~groups'[g].active)
                  => groups'[g] = [groups[g] EXCEPT !.active = FALSE]]_vars
  /\ [](/\ \A u \in Users :
             ~users[u].active => GetUser(u).err = "ErrUserNotFound"
        /\ \A g \in Groups :
             ~groups[g].active => GetGroup(g) = "ErrGroupNotRegistered")

\* a user row and a group row are both kept, inactive
C18_Witness ==
  /\ \E u \in Users :
       /\ users[u].present
       /\ ~users[u].active
       /\ GetUser(u).err = "ErrUserNotFound"
  /\ \E g \in Groups :
       /\ groups[g].present
       /\ ~groups[g].active
       /\ GetGroup(g) = "ErrGroupNotRegistered"

\* C19: whenever the reaper has been stopped, every runCleanup goroutine
\* that is alive then returns: a state without a live sweep goroutine follows.
C19_SweeperTerminates ==
  [](~isRunning => <>(AliveSweepers = {}))

\* the reaper was stopped and the goroutine started at construction has
\* returned
C19_Witness ==
  /\ ~isRunning
  /\ stopCleaner = "closed"
  /\ sweep[1] = "exited"
  /\ ~cleanerPanic

\* a step that registers a cleanable while the reaper is running appends it
\* to the sweep set and starts no goroutine
RegisterOnlyAdds ==
  [][(isRunning /\ Len(cleanables') > Len(cleanables))
     => /\ sweep' = sweep
        /\ isRunning'
        /\ SubSeq(cleanables', 1, Len(cleanables)) = cleanables]_vars

\* C20: registering while the reaper is running only adds to the sweep set,
\* and at most one runCleanup goroutine is alive at any time.
C20_StartIdempotent ==
  /\ RegisterOnlyAdds
  /\ [](Cardinality(AliveSweepers) <= 1)

\* the message texts that are no command: no prefix, or a prefix and no token
NonCommandTexts == {<<"h">>, <<"!", " ">>}

\* the step has ended the dispatch of p without feedback and has left the
\* rate limiter, the notifier and the slots as they were
EndedSilently(p) ==
  /\ pc'[p] = "idle"
  /\ event'.returned = "nil"
  /\ event'.err = None
  /\ event'.sent = <<>>
  /\ UNCHANGED <<requests, notifiedTime, semaphore, held>>

\* C21: the dispatch of a message that is no command ends in its first step,
\* the parse, with nothing sent (no reaction, no text) and with no gate
\* consulted: no permission check is made for it, and the rate limiter, the
\* notifier and the slots are left as they were.
C21_NonCommandSilent ==
  /\ [][\A p \in Procs :
          (pc[p] = "idle" /\ event'.proc = p /\ ~EndedSilently(p))
          => \A sender \in Members, group \in GroupIds,
                text \in NonCommandTexts :
               ~HandleEvent(p, sender, group, text, None, FALSE)]_vars
  /\ [](\A sender \in Members, group \in GroupIds, text \in NonCommandTexts :
          ~BuildContext(sender, group, text, None, FALSE).checked)

\* a dispatch has ended with nothing sent while no command had yet been
\* admitted by the rate limiter
C21_Witness ==
  /\ event.proc # 0
  /\ event.returned = "nil"
  /\ event.err = None
  /\ event.sent = <<>>
  /\ \A u \in Users : requests[u] = <<>>
  /\ \E u \in Members : users[u].present

\* the outcome reactions among the messages of the last step
OutcomeReactionsSent(msgs) ==
  {i \in 1..Len(msgs) : msgs[i] \in {ReactionSuccess, ReactionError}}

C23_MissingHandlerHandled ==
  /\ [][\A p \in Procs :
          /\ (pc[p] = "exec" /\ mctx[p].command = CmdOther /\ pc'[p] # pc[p])
             => /\ pc'[p] = "release"
                /\ outcome'[p] = "ErrCommandNotFound"
                /\ event'.sent = <<>>
                /\ held'[p]
          /\ (/\ pc[p] = "release"
              /\ outcome[p] = "ErrCommandNotFound"
              /\ pc'[p] # pc[p])
             => /\ pc'[p] = "idle"
                /\ event'.returned = "ErrCommandNotFound"
                /\ event'.sent = <<>>
                /\ ~held'[p]
                /\ semaphore' = semaphore - 1]_vars
  /\ [](\A p \in Procs : pc[p] = "release" => ENABLED Release(p))

\* a dispatch of the command without a handler has ended and holds no slot
C23_Witness ==
  /\ event.proc \in Procs
  /\ event.returned = "ErrCommandNotFound"
  /\ pc[event.proc] = "idle"
  /\ ~held[event.proc]
  /\ semaphore = Cardinality(Holders)

\* C24: no two active ranks have the same level, whatever CreateRank and
\* UpdateRank calls have been made and however they interleave.
C24_UniqueLevels ==
  \A r1, r2 \in ListRanks : r1 # r2 => ranks[r1].level # ranks[r2].level

\* the ranks table is as initialization left it
RanksAsSeeded ==
  \A r \in AllRankNames :
    ranks[r] = IF r \in RankNames THEN DefaultRanks[r] ELSE NoRank

C26_GateOrder ==
  [][/\ \A p \in Procs :
          pc'[p] # pc[p]
          => /\ pc'[p] = "rate"
                  => pc[p] = "idle" /\ mctx'[p].checked /\ mctx'[p].Allowed
             /\ pc'[p] \in {"clear", "notify"} => pc[p] = "rate"
             /\ pc'[p] = "clear"
                  => /\ running
                     /\ LimiterCheck(requests[mctx[p].sender], now).Allowed
             /\ pc'[p] = "stamp" => pc[p] = "notify"
             /\ pc'[p] = "acquire" => pc[p] = "clear"
             /\ pc'[p] = "exec"
                  => pc[p] = "acquire" /\ semaphore < MaxConcurrent /\ held'[p]
             /\ pc'[p] = "release" => pc[p] = "exec"
     /\ requests' # requests
          => event'.proc \in Procs /\ pc[event'.proc] = "rate"
     /\ semaphore' > semaphore
          => event'.proc \in Procs /\ pc[event'.proc] = "acquire"]_vars

\* a dispatch stands in the handler: its command was allowed, its sender has
\* spent budget and it holds a slot
C26_Witness ==
  \E p \in Procs :
    /\ pc[p] = "exec"
    /\ mctx[p].checked
    /\ mctx[p].Allowed
    /\ requests[mctx[p].sender] # <<>>
    /\ held[p]

\* the calls up to the k-th that were allowed for the user of the k-th call
\* and whose timestamp lies within one period before that of the k-th
AllowedInWindow(k) ==
  {j \in 1..k : /\ calls[j].user = calls[k].user
                /\ calls[j].Allowed
                /\ calls[k].t - calls[j].t <= period
                /\ calls[k].t - calls[j].t >= 0}

\* C27: however concurrent Check calls for one identity interleave, the
\* calls allowed within one window period number at most maxRequests, and
\* the identity's list holds the timestamp of every allowed call that has
\* not expired: no update is lost.
C27_ConcurrentChecksBounded ==
  /\ \A k \in 1..Len(calls) :
       calls[k].Allowed => Cardinality(AllowedInWindow(k)) <= maxRequests
  /\ \A k \in 1..Len(calls) :
       (calls[k].Allowed /\ now - calls[k].t <= period)
       => Cardinality({i \in 1..Len(requests[calls[k].user]) :
                         requests[calls[k].user][i] = calls[k].t})
            >= Cardinality({j \in 1..Len(calls) :
                              /\ calls[j].user = calls[k].user
                              /\ calls[j].Allowed
                              /\ calls[j].t = calls[k].t})

\* a goroutine holds the mutex with a denial computed for an identity whose
\* window is full, while another goroutine waits at the mutex with a call
\* for the same identity
C27_Witness ==
  \E p, q \in Procs :
    /\ p # q
    /\ limMu = p
    /\ limCall[p].pc = "computed"
    /\ ~limCall[p].result.Allowed
    /\ limCall[q].pc = "lock"
    /\ limCall[q].user = limCall[p].user

\* the user's list holds the timestamp of a check that was allowed after
\* the notification on record was stamped and before the denial at time at
\* (a check allowed after a denial has a timestamp greater than at: the
\* list was full at the denial, and room comes only as the clock advances)
AllowedBetween(u, at) ==
  \E i \in 1..Len(requests[u]) :
    requests[u][i] > notifiedTime[u] /\ requests[u][i] <= at

\* C28: the step that follows an allowed rate check clears the sender's
\* notification record, and a rate-limit denial goes without the wait text
\* only when no check of the sender was allowed between the stamping of the
\* notification on record and the denial: the first denial after an allowed
\* check notifies.
C28_ClearedThenNotified ==
  [][\A p \in Procs :
       /\ (pc[p] = "clear" /\ pc'[p] # "clear")
          => notifiedTime'[mctx[p].sender] = NotNotified
       /\ (pc[p] = "notify" /\ pc'[p] = "idle")
          => ~AllowedBetween(mctx[p].sender, rateErr[p].at)]_vars

\* a denial is about to go without the wait text although a check of the
\* sender was allowed after the last notification and has not yet cleared
\* the record
C28_Race ==
  \E p, q \in Procs :
    /\ pc[p] = "notify" /\ pc[q] = "clear"
    /\ mctx[p].sender = mctx[q].sender
    /\ AllowedBetween(mctx[p].sender, rateErr[p].at)
    /\ ~ShouldNotifyDecision(notifiedTime[mctx[p].sender], now)

\* the step is a Limiter.Check call that was denied
DeniedCallStep ==
  /\ Len(calls') = Len(calls) + 1
  /\ ~calls'[Len(calls')].Allowed

\* calls j and k > j are denials of one user with no allowed call of that
\* user between them
DenialsInARow(j, k) ==
  /\ j < k
  /\ calls[j].user = calls[k].user
  /\ ~calls[j].Allowed /\ ~calls[k].Allowed
  /\ \A i \in (j + 1)..(k - 1) :
       calls[i].user = calls[j].user => ~calls[i].Allowed

\* C29: a denied Check leaves every identity's timestamp list as it was,
\* and denials in a row name the same instant of reset: a later denied
\* attempt does not move it.
C29_DeniedRecordsNothing ==
  /\ [][DeniedCallStep => requests' = requests]_vars
  /\ [](\A j, k \in 1..Len(calls) :
          DenialsInARow(j, k)
          => calls[k].t + calls[k].ResetAfter
               = calls[j].t + calls[j].ResetAfter)

\* a user was denied twice in a row at different times, and the list is
\* still what it was before the first denial
C29_Witness ==
  \E j, k \in 1..Len(calls) :
    /\ DenialsInARow(j, k)
    /\ calls[k].t > calls[j].t
    /\ requests[calls[j].user] = calls[j].before

\* the timestamps of call k's list that survive its filter
Surviving(k) ==
  {calls[k].before[i] : i \in {i \in 1..Len(calls[k].before) :
                                 calls[k].t - calls[k].before[i] <= period}}

\* the oldest of them
Oldest(k) == CHOOSE x \in Surviving(k) : \A y \in Surviving(k) : x <= y

\* C30: on a denied Check, ResetAfter is the window period less the age of
\* the oldest surviving timestamp, and it is not negative.
C30_ResetAfterOnDenial ==
  \A k \in 1..Len(calls) :
    ~calls[k].Allowed =>
      /\ Surviving(k) # {}
      /\ calls[k].ResetAfter = period - (calls[k].t - Oldest(k))
      /\ calls[k].ResetAfter >= 0

\* a denial whose oldest surviving timestamp is older than its newest and
\* has aged: the wait is shorter than the period
C30_Witness ==
  \E k \in 1..Len(calls) :
    /\ ~calls[k].Allowed
    /\ Cardinality(Surviving(k)) > 1
    /\ calls[k].t > Oldest(k)
    /\ calls[k].ResetAfter > 0
    /\ calls[k].ResetAfter < period

\* C31: with no Clear, a ShouldNotify call returns TRUE for a user only
\* when the user's record shows no notification inside the cooldown at the
\* moment the call stamps it: of concurrent calls at most one per cooldown
\* period returns TRUE.
C31_OneNotifyPerCooldown ==
  [][\A p \in Procs :
       (pc[p] = "stamp" /\ pc'[p] = "idle")
       => ShouldNotifyDecision(notifiedTime[mctx[p].sender], now)]_vars

\* two calls for one user have both decided TRUE and neither has stamped
C31_Race ==
  \E p, q \in Procs :
    /\ p # q
    /\ pc[p] = "stamp" /\ pc[q] = "stamp"
    /\ mctx[p].sender = mctx[q].sender

\* C32: whenever the reaper reports running, a runCleanup goroutine is
\* alive and the ticker that feeds it has not been stopped, so that ticks
\* keep coming and each is answered by CleanAll over the registered
\* cleanables; this also after a Register that follows a Stop.
C32_RunningMeansSweeping ==
  (isRunning /\ ~cleanerPanic) => (AliveSweepers # {} /\ tickerOn)

\* C33: no sequence of Register, Stop, Start and Stop calls panics: Stop
\* never closes a stopCleaner that is already closed.
C33_StopNeverPanics == ~cleanerPanic

\* C34: a dispatch of a command message that ends without the handler
\* succeeding sends something to the user: the step that ends it at the
\* permission gate, at the rate limiter or at the admission gate sends a
\* reaction or a text, and so does the step in which the execution ends
\* with anything but success.
C34_FailureFeedback ==
  [][\A p \in Procs :
       /\ (pc[p] = "idle" /\ event'.proc = p /\ event'.err # None)
          => event'.sent # <<>>
       /\ (pc[p] \in {"rate", "notify", "stamp", "acquire"} /\ pc'[p] = "idle")
          => event'.sent # <<>>
       /\ (pc[p] = "exec" /\ pc'[p] = "release" /\ outcome'[p] # "ok")
          => event'.sent # <<>>]_vars

\* C35: the registrar of every active registered group is an existing
\* active user.
C35_RegistrarActive ==
  \A g \in Groups :
    (groups[g].present /\ groups[g].active)
    => GetUser(groups[g].by).err = "ok"

\* C36: the rank of every active user is an existing active rank.
C36_UserRankActive ==
  \A u \in Users :
    (users[u].present /\ users[u].active)
    => GetRank(users[u].rank).err = "ok"

\* C37: a user or a group that has been soft-deleted can be registered
\* again: the CreateUser call with an active rank, and the CreateGroup call
\* by an active user, succeed for it and leave an active record.
C37_ReregisterSucceeds ==
  /\ \A u \in Members, r \in RankNames :
       (users[u].present /\ ~users[u].active /\ GetRank(r).err = "ok")
       => ENABLED CreateUser(u, r)
  /\ \A g \in Groups, u \in Members :
       (groups[g].present /\ ~groups[g].active /\ GetUser(u).err = "ok")
       => ENABLED CreateGroup(g, u)

\* the reasons with which CheckPermission denies
DenialReasons ==
  {ReasonGroupNotRegistered, ReasonUserNotRegistered,
   ReasonUserNotRegisteredPrivate}
    \cup {ReasonCommandNotAllowed(c, r) : c \in CommandNames, r \in RankNames}

\* the text createPermissionDeniedMessage falls back to, with the reason
FallbackMsg(reason) ==
  Text("You don't have permission to use the command:", reason)

\* C38: a dispatch that CheckPermission denied with one of its reasons
\* sends the text written for that reason, not the fallback text that
\* carries the reason along.
C38_ReasonSpecificMessage ==
  \A i \in 1..Len(event.sent) :
    \A reason \in DenialReasons : event.sent[i] # FallbackMsg(reason)

\* how often the timestamp x occurs in the list s
Occurrences(s, x) == Cardinality({i \in 1..Len(s) : s[i] = x})

\* the step is the CleanAll of a runCleanup goroutine
CleanAllStep == \E i \in Sweepers : sweep[i] = "clean" /\ sweep'[i] = "select"

\* C39: after Limiter.Cleanup has run, a user all of whose timestamps were
\* older than the window period has no entry, and a user with a timestamp
\* inside the window has every such timestamp still, as often as before.
C39_CleanupKeepsWindow ==
  [][CleanAllStep =>
       \A u \in Users :
         /\ (\A i \in 1..Len(requests[u]) : now - requests[u][i] > period)
            => requests'[u] = <<>>
         /\ \A i \in 1..Len(requests[u]) :
              now - requests[u][i] <= period
              => Occurrences(requests'[u], requests[u][i])
                   = Occurrences(requests[u], requests[u][i])]_vars

\* the last Check left a user with an older timestamp and its own; the
\* older one has expired since and a Cleanup has removed it alone
C39_Witness ==
  /\ Len(calls) > 0
  /\ LET c == calls[Len(calls)]
     IN /\ c.Allowed
        /\ c.before # <<>>
        /\ c.t - c.before[1] <= period
        /\ now - c.before[1] > period
        /\ now - c.t <= period
        /\ requests[c.user] = <<c.t>>

====
